---- MODULE Spec2Model ----
(***************************************************************************)
(* The voice-input session controller of app/(tabs)/index.tsx (HomeScreen):*)
(* the VoiceState record, the display transcript, the pulse animation and  *)
(* the alert channel, driven by the mic button, by the promises of the     *)
(* native Voice module and by the callbacks of the two speech backends     *)
(* (native @react-native-voice/voice, browser webkitSpeechRecognition).    *)
(*                                                                         *)
(* The backends themselves are the environment: a backend session goes     *)
(* idle -> starting -> active -> (ending ->) idle and posts its events to  *)
(* a FIFO of callbacks that the single JS thread runs one at a time.       *)
(***************************************************************************)
EXTENDS Integers, Sequences, FiniteSets, Bags, TLC

VARIABLES
  isWeb,           \* Platform.OS === 'web'                        (line 38)
  hasWebkit,       \* 'webkitSpeechRecognition' in window          (line 161)
  mounted,         \* the initialization effect has run            (line 158)
  webRecognition,  \* "null" or "recognition"                      (line 39)
  voiceHandlers,   \* Voice.onSpeech* are registered               (lines 216-222)
  voiceState,      \* the VoiceState record                        (lines 28-36)
  recognizedText,  \* the display transcript                       (line 27)
  pulse,           \* the pulse animation loops are running        (lines 63-108)
  alerts,          \* Alert.alert calls so far: a bag of alerts
  bk,              \* backend session: idle, starting, active, ending
  queue,           \* backend callbacks posted and not yet run
  promises,        \* Voice.start / Voice.stop promises that will be rejected
  calls,           \* how often each adapter primitive was invoked
  presses,         \* start()/stop() calls so far
  last,            \* the operation that ran last, with what it was given
  scen             \* progress through the native scenario of section 8.6

vars == <<isWeb, hasWebkit, mounted, webRecognition, voiceHandlers, voiceState,
          recognizedText, pulse, alerts, bk, queue, promises, calls, presses,
          last, scen>>

---------------------------------------------------------------------------
(* Bounds of the model. *)
MaxPresses == 2     \* start()/stop() calls in one behaviour
MaxQueue == 1       \* backend callbacks in flight
MaxResults == 2     \* entries of a browser result list

---------------------------------------------------------------------------
(* Payloads the backends deliver. *)

\* e.value of a native results event and of a native partial-results event:
\* absent, or a list of candidates.
FinalCandidates ==
  { <<>>, <<"book a table please">>,
    <<"book a table please", "look at a table please">> }

PartialCandidates == { <<>>, <<"book a">>, <<"book a table">> }

Value(l) == [defined |-> TRUE, list |-> l]
Absent == [defined |-> FALSE, list |-> <<>>]

FinalValues == {Absent} \cup {Value(l) : l \in FinalCandidates}
PartialValues == {Absent} \cup {Value(l) : l \in PartialCandidates}

\* e.error of a native error event: absent, or {code, message}.
NativeErrors ==
  { [defined |-> FALSE, code |-> "", message |-> ""],
    [defined |-> TRUE, code |-> "7", message |-> "No match"] }

\* event.error of a browser error event.
WebErrors == {"no-speech", "not-allowed"}

\* e.value of a native volume event.
Volumes == {"2.5"}

\* Transcripts of the entries of a browser result list.
Transcripts == {"", "hello", "wor"}

WebEntries == [transcript : Transcripts, isFinal : BOOLEAN]

ResultLists == UNION {[1..n -> WebEntries] : n \in 0..MaxResults}

\* A browser onresult event: the whole result list and the index of the first
\* entry that changed.
WebResultEvents ==
  UNION {{[results |-> rs, resultIndex |-> i] : i \in 0..Len(rs)} : rs \in ResultLists}

NoArg == [none |-> TRUE]

---------------------------------------------------------------------------
(* State updates of the handlers. *)

\* useState<VoiceState>({...}), lines 28-36.
InitialVoiceState ==
  [recognized |-> "", pitch |-> "", error |-> "", end |-> "",
   started |-> FALSE, results |-> <<>>, partialResults |-> <<>>]

\* The object startListening passes to setVoiceState, lines 251-259.
ResetVoiceState ==
  [recognized |-> "", pitch |-> "", error |-> "", started |-> FALSE,
   results |-> <<>>, partialResults |-> <<>>, end |-> ""]

\* The check mark the code stores in recognized and end, lines 118 and 123.
Tick == "tick"

\* prev => ({...prev, started: true}), lines 112 and 168.
StartFold(prev) == [prev EXCEPT !.started = TRUE]

\* onSpeechRecognized that starts from a fresh record instead of spreading prev.
RecognizedFoldFresh(prev) == [ResetVoiceState EXCEPT !.recognized = Tick]

\* prev => ({...prev, recognized: <check mark>}), line 118.
RecognizedFold(prev) == [prev EXCEPT !.recognized = Tick]

\* onSpeechEnd without `started: false`.
EndFoldKeepsStarted(prev) == [prev EXCEPT !.end = Tick]

\* onSpeechEnd that also empties partialResults.
EndFoldClearsPartials(prev) ==
  [prev EXCEPT !.end = Tick, !.started = FALSE, !.partialResults = << >>]

\* prev => ({...prev, end: <check mark>, started: false}), line 123.
EndFold(prev) == [prev EXCEPT !.end = Tick, !.started = FALSE]

\* recognition.onend that leaves the record as it was.
WebEndFoldKeepsStarted(prev) == prev

\* prev => ({...prev, started: false}), line 196.
WebEndFold(prev) == [prev EXCEPT !.started = FALSE]

\* JSON.stringify(e.error), line 131: undefined stays undefined, an object
\* becomes its JSON text.
JsonStringify(err) ==
  IF ~err.defined THEN "undefined"
  ELSE "{\"code\":\"" \o err.code \o "\",\"message\":\"" \o err.message \o "\"}"

\* prev => ({...prev, error: JSON.stringify(e.error), started: false}), 129-133.
ErrorFold(prev, err) == [prev EXCEPT !.error = JsonStringify(err), !.started = FALSE]

\* e.error?.message || 'Unknown error', line 135.
ErrorMessage(err) ==
  IF err.defined /\ err.message # "" THEN err.message ELSE "Unknown error"

\* onerror that starts from a fresh record instead of spreading prev.
WebErrorFoldFresh(prev, err) == [ResetVoiceState EXCEPT !.error = err]

\* prev => ({...prev, started: false, error: event.error}), line 202.
WebErrorFold(prev, err) == [prev EXCEPT !.started = FALSE, !.error = err]

\* prev => ({...prev, pitch: e.value}), line 155.
VolumeFold(prev, v) == [prev EXCEPT !.pitch = v]

\* onSpeechResults that tests e.value only, as onSpeechPartialResults does.
SpeechResultsUpdatesUnguarded(value) ==
  IF value.defined
  THEN << [kind |-> "final", value |-> value.list,
           text |-> IF value.list = << >> THEN "" ELSE value.list[1]] >>
  ELSE << >>

\* The updates one onSpeechResults call makes, lines 140-143: none unless
\* e.value is a non-empty list.
SpeechResultsUpdates(value) ==
  IF value.defined /\ Len(value.list) > 0
  THEN << [kind |-> "final", value |-> value.list, text |-> value.list[1]] >>
  ELSE << >>

\* The updates one onSpeechPartialResults call makes, lines 148-150: none
\* unless e.value is present.
SpeechPartialUpdates(value) ==
  IF value.defined
  THEN << [kind |-> "partial", value |-> value.list, text |-> ""] >>
  ELSE << >>

\* The loop of recognition.onresult, lines 173-183: the transcripts of the
\* entries from event.resultIndex on, concatenated by flag.
RECURSIVE Accumulate(_, _, _)
Accumulate(event, i, final) ==
  IF i > Len(event.results) THEN ""
  ELSE (IF event.results[i].isFinal = final THEN event.results[i].transcript ELSE "")
       \o Accumulate(event, i + 1, final)

\* The loop started one entry late.
FinalTranscriptFromNext(event) == Accumulate(event, event.resultIndex + 2, TRUE)

\* i runs from event.resultIndex (0-based) over the 1-based entries here.
FinalTranscript(event) == Accumulate(event, event.resultIndex + 1, TRUE)
InterimTranscript(event) == Accumulate(event, event.resultIndex + 1, FALSE)

\* The updates one recognition.onresult call makes, lines 185-192.
WebResultUpdates(event) ==
  (IF FinalTranscript(event) # ""
   THEN << [kind |-> "final", value |-> <<FinalTranscript(event)>>,
            text |-> FinalTranscript(event)] >>
   ELSE << >>)
  \o
  (IF InterimTranscript(event) # ""
   THEN << [kind |-> "partial", value |-> <<InterimTranscript(event)>>, text |-> ""] >>
   ELSE << >>)

\* One update applied to the VoiceState record, lines 141, 149, 187, 191.
ApplyUpdate(prev, u) ==
  IF u.kind = "final" THEN [prev EXCEPT !.results = u.value]
  ELSE [prev EXCEPT !.partialResults = u.value]

RECURSIVE ApplyUpdates(_, _)
ApplyUpdates(prev, us) ==
  IF us = << >> THEN prev ELSE ApplyUpdates(ApplyUpdate(prev, Head(us)), Tail(us))

\* Results handlers that forget setRecognizedText.
ApplyTextKept(text, us) == text

\* setRecognizedText of lines 142 and 186: the text of the last final update.
RECURSIVE ApplyText(_, _)
ApplyText(text, us) ==
  IF us = << >> THEN text
  ELSE ApplyText(IF Head(us).kind = "final" THEN Head(us).text ELSE text, Tail(us))

---------------------------------------------------------------------------
(* Alerts. *)

NotSupportedAlert ==
  [title |-> "Speech Recognition Not Supported",
   message |-> "Your browser does not support speech recognition. Please use Chrome or Safari."]

NotAvailableAlert == [title |-> "Error", message |-> "Speech recognition not available"]

StartFailedAlert ==
  [title |-> "Error",
   message |-> "Failed to start voice recognition. Please check microphone permissions."]

ErrorAlert(msg) == [title |-> "Speech Recognition Error", message |-> "Error: " \o msg]

---------------------------------------------------------------------------
(* The try/catch blocks of startListening and stopListening. *)

\* A catch block that only logs.
StartCatchSilent(threw) == {}

\* catch of startListening, lines 272-275: the alert a throw leads to.
StartCatchAlerts(threw) == IF threw THEN {StartFailedAlert} ELSE {}

\* What the caller of startListening sees, lines 262-275.
StartOutcome(threw) == IF threw THEN "alerted" ELSE "ok"

\* stopListening without its try/catch.
StopOutcomeUncaught(threw) == IF threw THEN "raised" ELSE "ok"

\* What the caller of stopListening sees, lines 279-289: a throw is logged.
StopOutcome(threw) == IF threw THEN "logged" ELSE "ok"

---------------------------------------------------------------------------
(* The backend session (environment). *)

platform == <<isWeb, hasWebkit>>

\* The start primitive took effect: a new session begins, and what the queue
\* still holds belongs to an earlier session.
BackendStarted ==
  /\ bk' = "starting"
  /\ queue' = [i \in DOMAIN queue |-> [queue[i] EXCEPT !.stale = TRUE]]

\* The stop primitive took effect: a running session is asked to end.
BackendStopped ==
  /\ bk' = IF bk \in {"starting", "active"} THEN "ending" ELSE bk
  /\ UNCHANGED queue

Post(kind) == queue' = Append(queue, [kind |-> kind, stale |-> FALSE])

\* What a listening session reports, and what one that was asked to stop
\* still reports before it ends: its last results.
SpeechKinds ==
  IF isWeb THEN {"result"} ELSE {"recognized", "results", "partial", "volume"}

LastKinds == IF isWeb THEN {"result"} ELSE {"results"}

\* The session reports that it is listening.
BkStart ==
  /\ bk = "starting" /\ Len(queue) < MaxQueue
  /\ Post("start") /\ bk' = "active"
  /\ UNCHANGED <<platform, mounted, webRecognition, voiceHandlers, voiceState,
                 recognizedText, pulse, alerts, promises, calls, presses, last, scen>>

\* The session reports speech: recognized, results, partial results, volume.
BkSpeech ==
  /\ bk \in {"active", "ending"} /\ Len(queue) < MaxQueue
  /\ \E kind \in (IF bk = "active" THEN SpeechKinds ELSE LastKinds) : Post(kind)
  /\ UNCHANGED <<platform, mounted, webRecognition, voiceHandlers, voiceState,
                 recognizedText, pulse, alerts, promises, calls, presses, last, scen,
                 bk>>

\* The session ends.
BkEnd ==
  /\ bk \in {"starting", "active", "ending"} /\ Len(queue) < MaxQueue
  /\ Post("end") /\ bk' = "idle"
  /\ UNCHANGED <<platform, mounted, webRecognition, voiceHandlers, voiceState,
                 recognizedText, pulse, alerts, promises, calls, presses, last, scen>>

\* The session fails; an end event may or may not follow the error event.
BkError ==
  /\ bk \in {"starting", "active"} /\ Len(queue) < MaxQueue
  /\ Post("error") /\ bk' \in {"idle", "ending"}
  /\ UNCHANGED <<platform, mounted, webRecognition, voiceHandlers, voiceState,
                 recognizedText, pulse, alerts, promises, calls, presses, last, scen>>

---------------------------------------------------------------------------
(* The scenario of section 8.6, followed step by step. *)

Scenario ==
  << [op |-> "onSpeechStart", arg |-> NoArg],
     [op |-> "onSpeechPartialResults", arg |-> Value(<<"book a">>)],
     [op |-> "onSpeechPartialResults", arg |-> Value(<<"book a table">>)],
     [op |-> "onSpeechResults", arg |-> Value(<<"book a table please">>)],
     [op |-> "onSpeechEnd", arg |-> NoArg] >>

\* scen = n > 0: start() ran on the native backend and exactly the first n-1
\* events of the scenario were folded since, and nothing else.
ScenStep(s, op, arg) ==
  IF s \in 1..Len(Scenario) /\ Scenario[s].op = op /\ Scenario[s].arg = arg
  THEN s + 1 ELSE 0

---------------------------------------------------------------------------
(* Initialization. *)

Init ==
  /\ isWeb \in BOOLEAN
  /\ hasWebkit \in (IF isWeb THEN BOOLEAN ELSE {FALSE})
  /\ mounted = FALSE
  /\ webRecognition = "null"
  /\ voiceHandlers = FALSE
  /\ voiceState = InitialVoiceState
  /\ recognizedText = ""
  /\ pulse = FALSE
  /\ alerts = EmptyBag
  /\ bk = "idle"
  /\ queue = << >>
  /\ promises = << >>
  /\ calls = [voiceStart |-> 0, voiceStop |-> 0, webStart |-> 0, webStop |-> 0]
  /\ presses = 0
  /\ last = [op |-> "init", arg |-> NoArg, fired |-> << >>, outcome |-> "ok",
             stale |-> FALSE]
  /\ scen = 0

\* last, after an operation of the screen.
Did(op, arg, fired, outcome) ==
  last' = [op |-> op, arg |-> arg, fired |-> fired, outcome |-> outcome,
           stale |-> FALSE]

\* The callback at the head of the queue runs: last, queue and scen after it.
Folded(kind, op, arg, fired) ==
  /\ mounted /\ queue # << >> /\ Head(queue).kind = kind
  /\ queue' = Tail(queue)
  /\ last' = [op |-> op, arg |-> arg, fired |-> fired, outcome |-> "ok",
              stale |-> Head(queue).stale]
  /\ scen' = ScenStep(scen, op, arg)

\* The alerts the initialization effect raises, lines 159-213.
EffectAlerts == IF isWeb /\ ~hasWebkit THEN {NotSupportedAlert} ELSE {}

\* useEffect, lines 158-228.
InitEffect ==
  /\ ~mounted
  /\ mounted' = TRUE
  /\ webRecognition' = IF isWeb /\ hasWebkit THEN "recognition" ELSE "null"
  /\ voiceHandlers' = ~isWeb
  /\ alerts' = alerts (+) SetToBag(EffectAlerts)
  /\ Did("effect", NoArg, << >>, "ok")
  /\ UNCHANGED <<platform, voiceState, recognizedText, pulse, bk, queue, promises,
                 calls, presses, scen>>

---------------------------------------------------------------------------
(* start() and stop(). *)

\* A reset that spreads the previous record and leaves `end` out.
StartResetKeepsEnd(prev) == [ResetVoiceState EXCEPT !.end = prev.end]

\* setVoiceState({...}) of startListening, lines 251-259: the new record does
\* not depend on the previous one.
StartReset(prev) == ResetVoiceState

\* Delegation that tests the recognition object alone, not the platform.
ActiveAdapterByObject == IF webRecognition # "null" THEN "web" ELSE "native"

\* Delegation without the `if (webRecognition)` test.
ActiveAdapterUnchecked == IF isWeb THEN "web" ELSE "native"

\* The adapter startListening and stopListening delegate to, lines 263-271 and
\* 280-286.
ActiveAdapter ==
  IF isWeb THEN (IF webRecognition # "null" THEN "web" ELSE "none") ELSE "native"

\* startListening that raises no alert of its own.
StartAlertsSilent(adapter) == {}

\* The alerts startListening raises by itself, lines 264-268.
StartAlerts(adapter) == IF adapter = "none" THEN {NotAvailableAlert} ELSE {}

Count(field) == calls' = [calls EXCEPT ![field] = @ + 1]

\* startListening, lines 250-276. On the native backend the function runs up
\* to `await Voice.start`; nothing follows the await when the promise is
\* fulfilled, and VoiceStartRejected is the catch block when it is rejected.
StartListening ==
  /\ mounted /\ presses < MaxPresses
  /\ presses' = presses + 1
  /\ voiceState' = StartReset(voiceState)
  /\ recognizedText' = ""
  /\ scen' = IF ActiveAdapter = "native" THEN 1 ELSE 0
  /\ \E threw \in BOOLEAN :
       CASE ActiveAdapter = "web" ->
              /\ Count("webStart")
              /\ alerts' = alerts (+) SetToBag(StartCatchAlerts(threw))
              /\ IF threw THEN UNCHANGED <<bk, queue>> ELSE BackendStarted
              /\ Did("start", NoArg, << >>, StartOutcome(threw))
              /\ UNCHANGED promises
         [] ActiveAdapter = "native" ->
              /\ Count("voiceStart")
              /\ promises' = IF threw THEN Append(promises, "start") ELSE promises
              /\ IF threw THEN UNCHANGED <<bk, queue>> ELSE BackendStarted
              /\ Did("start", NoArg, << >>, "pending")
              /\ UNCHANGED alerts
         [] OTHER ->
              /\ ~threw
              /\ alerts' = alerts (+) SetToBag(StartAlerts(ActiveAdapter))
              /\ Did("start", NoArg, << >>, "unsupported")
              /\ UNCHANGED <<bk, queue, promises, calls>>
  /\ UNCHANGED <<platform, mounted, webRecognition, voiceHandlers, pulse>>

\* The promise of Voice.start is rejected: the catch block, lines 272-275.
VoiceStartRejected ==
  /\ promises # << >> /\ Head(promises) = "start"
  /\ promises' = Tail(promises)
  /\ alerts' = alerts (+) SetToBag(StartCatchAlerts(TRUE))
  /\ Did("startRejected", NoArg, << >>, StartOutcome(TRUE))
  /\ scen' = 0
  /\ UNCHANGED <<platform, mounted, webRecognition, voiceHandlers, voiceState,
                 recognizedText, pulse, bk, queue, calls, presses>>

\* stopListening, lines 278-290. On the native backend the function runs up to
\* `await Voice.stop`; VoiceStopRejected is the catch block of a rejection.
StopListening ==
  /\ mounted /\ presses < MaxPresses
  /\ presses' = presses + 1
  /\ scen' = 0
  /\ \E threw \in BOOLEAN :
       CASE ActiveAdapter = "web" ->
              /\ Count("webStop")
              /\ IF threw THEN UNCHANGED <<bk, queue>> ELSE BackendStopped
              /\ Did("stop", NoArg, << >>, StopOutcome(threw))
              /\ UNCHANGED promises
         [] ActiveAdapter = "native" ->
              /\ Count("voiceStop")
              /\ promises' = IF threw THEN Append(promises, "stop") ELSE promises
              /\ IF threw THEN UNCHANGED <<bk, queue>> ELSE BackendStopped
              /\ Did("stop", NoArg, << >>, "pending")
         [] OTHER ->
              /\ ~threw
              /\ Did("stop", NoArg, << >>, "ok")
              /\ UNCHANGED <<bk, queue, promises, calls>>
  /\ UNCHANGED <<platform, mounted, webRecognition, voiceHandlers, voiceState,
                 recognizedText, pulse, alerts>>

\* The promise of Voice.stop is rejected: the catch block, lines 287-289.
VoiceStopRejected ==
  /\ promises # << >> /\ Head(promises) = "stop"
  /\ promises' = Tail(promises)
  /\ Did("stopRejected", NoArg, << >>, StopOutcome(TRUE))
  /\ UNCHANGED <<platform, mounted, webRecognition, voiceHandlers, voiceState,
                 recognizedText, pulse, alerts, bk, queue, calls, presses, scen>>

\* onPress of the mic button, line 381.
MicPressStart == ~voiceState.started /\ StartListening
MicPressStop == voiceState.started /\ StopListening

---------------------------------------------------------------------------
(* The callbacks of the native backend, lines 110-156. *)

NativeReady == ~isWeb /\ voiceHandlers

OnSpeechStart ==
  /\ NativeReady /\ Folded("start", "onSpeechStart", NoArg, << >>)
  /\ voiceState' = StartFold(voiceState)
  /\ pulse' = TRUE
  /\ UNCHANGED <<platform, mounted, webRecognition, voiceHandlers, recognizedText,
                 alerts, bk, promises, calls, presses>>

OnSpeechRecognized ==
  /\ NativeReady /\ Folded("recognized", "onSpeechRecognized", NoArg, << >>)
  /\ voiceState' = RecognizedFold(voiceState)
  /\ UNCHANGED <<platform, mounted, webRecognition, voiceHandlers, recognizedText,
                 pulse, alerts, bk, promises, calls, presses>>

OnSpeechEnd ==
  /\ NativeReady /\ Folded("end", "onSpeechEnd", NoArg, << >>)
  /\ voiceState' = EndFold(voiceState)
  /\ pulse' = FALSE
  /\ UNCHANGED <<platform, mounted, webRecognition, voiceHandlers, recognizedText,
                 alerts, bk, promises, calls, presses>>

OnSpeechError ==
  \E err \in NativeErrors :
    /\ NativeReady /\ Folded("error", "onSpeechError", err, << >>)
    /\ voiceState' = ErrorFold(voiceState, err)
    /\ pulse' = FALSE
    /\ alerts' = alerts (+) SetToBag({ErrorAlert(ErrorMessage(err))})
    /\ UNCHANGED <<platform, mounted, webRecognition, voiceHandlers, recognizedText,
                   bk, promises, calls, presses>>

OnSpeechResults ==
  \E value \in FinalValues :
    /\ NativeReady
    /\ Folded("results", "onSpeechResults", value, SpeechResultsUpdates(value))
    /\ voiceState' = ApplyUpdates(voiceState, SpeechResultsUpdates(value))
    /\ recognizedText' = ApplyText(recognizedText, SpeechResultsUpdates(value))
    /\ UNCHANGED <<platform, mounted, webRecognition, voiceHandlers, pulse, alerts,
                   bk, promises, calls, presses>>

OnSpeechPartialResults ==
  \E value \in PartialValues :
    /\ NativeReady
    /\ Folded("partial", "onSpeechPartialResults", value, SpeechPartialUpdates(value))
    /\ voiceState' = ApplyUpdates(voiceState, SpeechPartialUpdates(value))
    /\ UNCHANGED <<platform, mounted, webRecognition, voiceHandlers, recognizedText,
                   pulse, alerts, bk, promises, calls, presses>>

OnSpeechVolumeChanged ==
  \E v \in Volumes :
    /\ NativeReady /\ Folded("volume", "onSpeechVolumeChanged", NoArg, << >>)
    /\ voiceState' = VolumeFold(voiceState, v)
    /\ UNCHANGED <<platform, mounted, webRecognition, voiceHandlers, recognizedText,
                   pulse, alerts, bk, promises, calls, presses>>

---------------------------------------------------------------------------
(* The callbacks of the browser backend, lines 167-205. *)

WebReady == isWeb /\ webRecognition # "null"

WebOnStart ==
  /\ WebReady /\ Folded("start", "onstart", NoArg, << >>)
  /\ voiceState' = StartFold(voiceState)
  /\ pulse' = TRUE
  /\ UNCHANGED <<platform, mounted, webRecognition, voiceHandlers, recognizedText,
                 alerts, bk, promises, calls, presses>>

\* The onresult events of a session here: every final entry reads "hello" and
\* every interim entry "wor".
SessionResultEvents ==
  { event \in WebResultEvents :
      \A i \in DOMAIN event.results :
        event.results[i].transcript = IF event.results[i].isFinal THEN "hello" ELSE "wor" }

\* recognition.onresult, lines 172-193, for every such event: the events are
\* told apart by the updates they lead to.
WebResultOutcomes == {WebResultUpdates(event) : event \in SessionResultEvents}

WebOnResult ==
  \E updates \in WebResultOutcomes :
    /\ WebReady /\ Folded("result", "onresult", NoArg, updates)
    /\ voiceState' = ApplyUpdates(voiceState, updates)
    /\ recognizedText' = ApplyText(recognizedText, updates)
    /\ UNCHANGED <<platform, mounted, webRecognition, voiceHandlers, pulse, alerts,
                   bk, promises, calls, presses>>

WebOnEnd ==
  /\ WebReady /\ Folded("end", "onend", NoArg, << >>)
  /\ voiceState' = WebEndFold(voiceState)
  /\ pulse' = FALSE
  /\ UNCHANGED <<platform, mounted, webRecognition, voiceHandlers, recognizedText,
                 alerts, bk, promises, calls, presses>>

WebOnError ==
  \E err \in WebErrors :
    /\ WebReady /\ Folded("error", "onerror", [error |-> err], << >>)
    /\ voiceState' = WebErrorFold(voiceState, err)
    /\ pulse' = FALSE
    /\ alerts' = alerts (+) SetToBag({ErrorAlert(err)})
    /\ UNCHANGED <<platform, mounted, webRecognition, voiceHandlers, recognizedText,
                   bk, promises, calls, presses>>

---------------------------------------------------------------------------
(* The screen: the mic button, the promises and the backend callbacks. *)

Callbacks ==
  \/ OnSpeechStart \/ OnSpeechRecognized \/ OnSpeechEnd \/ OnSpeechError
  \/ OnSpeechResults \/ OnSpeechPartialResults \/ OnSpeechVolumeChanged
  \/ WebOnStart \/ WebOnResult \/ WebOnEnd \/ WebOnError

Backend == BkStart \/ BkSpeech \/ BkEnd \/ BkError

Next ==
  \/ InitEffect
  \/ MicPressStart \/ MicPressStop
  \/ VoiceStartRejected \/ VoiceStopRejected
  \/ Callbacks
  \/ Backend

Spec == Init /\ [][Next]_vars

\* start() and stop() called in any state, not only through the mic button.
NextApi ==
  \/ InitEffect
  \/ StartListening \/ StopListening
  \/ VoiceStartRejected \/ VoiceStopRejected
  \/ Callbacks
  \/ Backend

SpecApi == Init /\ [][NextApi]_vars

\* The life cycle of sessions on its own: the backend reports start, end and
\* error, and the screen folds them. Speech events, which never touch
\* started, are left to Spec.
SessionCallbacks ==
  \/ OnSpeechStart \/ OnSpeechEnd \/ OnSpeechError
  \/ WebOnStart \/ WebOnEnd \/ WebOnError

SessionBackend == BkStart \/ BkEnd \/ BkError

NextSession ==
  \/ InitEffect
  \/ MicPressStart \/ MicPressStop
  \/ VoiceStartRejected \/ VoiceStopRejected
  \/ SessionCallbacks
  \/ SessionBackend

\* The life cycle with its scheduling: the JavaScript event loop runs every
\* callback the backend has posted, and the backend ends every session (the
\* end event of onSpeechEnd / recognition.onend is eventually posted).
SpecFair ==
  Init /\ [][NextSession]_vars /\ WF_vars(SessionCallbacks) /\ SF_vars(BkEnd)

\* The whole screen under the same scheduling.
SpecFairAll == Spec /\ WF_vars(Callbacks) /\ SF_vars(BkEnd)

---------------------------------------------------------------------------
(* recognition.onresult on its own: one callback with a given event, in a   *)
(* browser session that is listening.                                      *)

\* What the record may hold when the callback runs.
ListeningStates ==
  { StartFold(ResetVoiceState),
    [StartFold(ResetVoiceState) EXCEPT !.results = <<"hello">>,
                                       !.partialResults = <<"wor">>] }

InitOnResult ==
  /\ isWeb = TRUE /\ hasWebkit = TRUE /\ mounted = TRUE
  /\ webRecognition = "recognition" /\ voiceHandlers = FALSE
  /\ voiceState \in ListeningStates
  /\ recognizedText = (IF voiceState.results = << >> THEN "" ELSE voiceState.results[1])
  /\ pulse = TRUE
  /\ alerts = EmptyBag
  /\ bk = "active"
  /\ queue = << [kind |-> "result", stale |-> FALSE] >>
  /\ promises = << >>
  /\ calls = [voiceStart |-> 0, voiceStop |-> 0, webStart |-> 1, webStop |-> 0]
  /\ presses = 1
  /\ \E event \in WebResultEvents :
       last = [op |-> "input", arg |-> event, fired |-> << >>, outcome |-> "ok",
               stale |-> FALSE]
  /\ scen = 0

\* recognition.onresult, lines 172-193, called with the event last.arg.
OnResultGiven ==
  /\ last.op = "input"
  /\ WebReady /\ Folded("result", "onresult", last.arg, WebResultUpdates(last.arg))
  /\ voiceState' = ApplyUpdates(voiceState, WebResultUpdates(last.arg))
  /\ recognizedText' = ApplyText(recognizedText, WebResultUpdates(last.arg))
  /\ UNCHANGED <<platform, mounted, webRecognition, voiceHandlers, pulse, alerts,
                 bk, promises, calls, presses>>

SpecOnResult == InitOnResult /\ [][OnResultGiven]_vars

---------------------------------------------------------------------------
(* Steps, told apart by what they change. *)

StartStep == presses' = presses + 1 /\ last'.op = "start"
StopStep == presses' = presses + 1 /\ last'.op = "stop"
FoldStep == queue # << >> /\ queue' = Tail(queue)
RejectStep(op) == promises # << >> /\ promises' = Tail(promises) /\ Head(promises) = op

EndOps == {"onSpeechEnd", "onend"}
ErrorOps == {"onSpeechError", "onerror"}

---------------------------------------------------------------------------
(* Properties. *)

\* C1: on either backend, in the state right after an end event or an error
\* event was folded, started is false.
C1_EndOrErrorClearsStarted ==
  last.op \in EndOps \cup ErrorOps => voiceState.started = FALSE

\* An end event was folded in a session that had delivered results.
C1_Witness ==
  /\ last.op = "onSpeechEnd" /\ ~last.stale
  /\ voiceState.results # << >> /\ voiceState.started = FALSE

\* C2: whatever the state before, right after start() has reset the record and
\* called the backend's start primitive, results, partialResults, error, end
\* and recognized are empty and started is false, and the display transcript
\* is empty.
C2_StartResets ==
  last.op = "start" =>
    /\ voiceState.results = << >> /\ voiceState.partialResults = << >>
    /\ voiceState.error = "" /\ voiceState.end = "" /\ voiceState.recognized = ""
    /\ voiceState.started = FALSE
    /\ recognizedText = ""

\* start() ran and the start primitive took effect, after an earlier session
\* had ended with an error and an end event.
C2_Witness ==
  /\ last.op = "start" /\ bk = "starting" /\ calls.voiceStart = 2
  /\ \E a \in BagToSet(alerts) : a.title = "Speech Recognition Error"
  /\ \E i \in DOMAIN queue : queue[i].stale

RECURSIVE Join(_)
Join(strings) == IF strings = << >> THEN "" ELSE Head(strings) \o Join(Tail(strings))

\* The transcripts of entries a..b (1-based) of a result list.
TranscriptsOf(results, a, b) == [i \in 1..(b - a + 1) |-> results[a + i - 1].transcript]

FinalUpdate(text) == [kind |-> "final", value |-> <<text>>, text |-> text]
PartialUpdate(text) == [kind |-> "partial", value |-> <<text>>, text |-> ""]

\* The result list of `event` is final on [from..k) and interim on [k..n)
\* (0-based, as in the source).
SplitAt(event, from, k) ==
  /\ \A i \in (from + 1)..k : event.results[i].isFinal
  /\ \A i \in (k + 1)..Len(event.results) : ~event.results[i].isFinal

\* C3 as stated: an onresult call whose list is final on [0..k) and interim on
\* [k..n), both non-empty and with non-empty concatenations, makes exactly one
\* final-results update with the concatenation of [0..k) and one
\* partial-results update with that of [k..n).
C3_WholeListIsPartitioned ==
  last.op = "onresult" =>
    LET event == last.arg
        n == Len(event.results)
        F(k) == Join(TranscriptsOf(event.results, 1, k))
        I(k) == Join(TranscriptsOf(event.results, k + 1, n))
    IN \A k \in 1..(n - 1) :
         SplitAt(event, 0, k) /\ F(k) # "" /\ I(k) # "" =>
           last.fired = << FinalUpdate(F(k)), PartialUpdate(I(k)) >>

\* C3, amended: with r the event's resultIndex, an onresult call whose list is
\* final on [r..k) and interim on [k..n), the two concatenations non-empty,
\* makes exactly one final-results update with the concatenation of [r..k) and
\* one partial-results update with that of [k..n), and they reach results,
\* the display transcript and partialResults; every update any call makes
\* carries one non-empty string, and no call makes two of a kind.
C3_NewRangeIsPartitioned ==
  last.op = "onresult" =>
    LET event == last.arg
        n == Len(event.results)
        F(k) == Join(TranscriptsOf(event.results, event.resultIndex + 1, k))
        I(k) == Join(TranscriptsOf(event.results, k + 1, n))
    IN /\ \A k \in event.resultIndex..n :
            SplitAt(event, event.resultIndex, k) /\ F(k) # "" /\ I(k) # "" =>
              /\ last.fired = << FinalUpdate(F(k)), PartialUpdate(I(k)) >>
              /\ voiceState.results = << F(k) >>
              /\ voiceState.partialResults = << I(k) >>
              /\ recognizedText = F(k)
       /\ \A i \in DOMAIN last.fired :
            /\ Len(last.fired[i].value) = 1 /\ last.fired[i].value[1] # ""
            /\ \A j \in DOMAIN last.fired :
                 last.fired[i].kind = last.fired[j].kind => i = j

\* The scenario of section 8.7: one final entry "hello" and one interim entry
\* "wor", both new.
C3_Witness ==
  /\ last.op = "onresult"
  /\ last.arg = [results |-> << [transcript |-> "hello", isFinal |-> TRUE],
                               [transcript |-> "wor", isFinal |-> FALSE] >>,
                 resultIndex |-> 0]
  /\ last.fired = << FinalUpdate("hello"), PartialUpdate("wor") >>

---------------------------------------------------------------------------

Unsupported == isWeb /\ ~hasWebkit

\* C4: when the probe at initialization finds no backend, no adapter primitive
\* is ever invoked and no backend session ever exists, and every start() ends
\* as unsupported, with the 'not available' alert.
C4_UnsupportedNeverDelegates ==
  Unsupported =>
    /\ calls = [voiceStart |-> 0, voiceStop |-> 0, webStart |-> 0, webStop |-> 0]
    /\ bk = "idle" /\ queue = << >> /\ promises = << >>
    /\ last.op = "start" =>
         last.outcome = "unsupported" /\ CopiesIn(NotAvailableAlert, alerts) >= 1

\* start() was called twice with no backend.
C4_Witness ==
  /\ Unsupported /\ last.op = "start" /\ presses = 2
  /\ CopiesIn(NotAvailableAlert, alerts) = 2

C6_StopNeverRaises ==
  [][ (StopStep \/ RejectStep("stop")) =>
        /\ last'.outcome \in {"ok", "logged", "pending"}
        /\ alerts' = alerts
        /\ voiceState' = voiceState /\ recognizedText' = recognizedText
    ]_vars

\* stop() was called before any start(), with no session, and the stop
\* primitive threw.
C6_Witness ==
  /\ last.op = "stop" /\ last.outcome = "logged"
  /\ bk = "idle" /\ calls.webStart = 0 /\ calls.webStop = 1
  /\ voiceState = InitialVoiceState

\* C7: on the native backend, after start() and then exactly the events start,
\* partial(["book a"]), partial(["book a table"]),
\* final(["book a table please"]), end, the record has started = false,
\* results = ["book a table please"], partialResults = ["book a table"] and
\* end set.
C7_NativeScenario ==
  scen = Len(Scenario) + 1 =>
    /\ voiceState.started = FALSE
    /\ voiceState.results = <<"book a table please">>
    /\ voiceState.partialResults = <<"book a table">>
    /\ voiceState.end = Tick
    /\ recognizedText = "book a table please"

C7_Witness == scen = Len(Scenario) + 1 /\ last.op = "onSpeechEnd" /\ ~isWeb

\* C8: stop(), end events and error events change neither results nor
\* partialResults nor the display transcript; results and the display
\* transcript become empty by start() alone, and partialResults by start() or
\* by a partial-results event that brings the empty list.
C8_TranscriptKeptUntilStart ==
  [][ /\ (StopStep \/ RejectStep("stop") \/ (FoldStep /\ last'.op \in EndOps \cup ErrorOps)) =>
           /\ voiceState'.results = voiceState.results
           /\ voiceState'.partialResults = voiceState.partialResults
           /\ recognizedText' = recognizedText
      /\ ((voiceState.results # << >> /\ voiceState'.results = << >>)
          \/ (recognizedText # "" /\ recognizedText' = "")) => StartStep
      /\ (voiceState.partialResults # << >> /\ voiceState'.partialResults = << >>) =>
           \/ StartStep
           \/ FoldStep /\ last'.op = "onSpeechPartialResults" /\ last'.arg = Value(<< >>)
    ]_vars

\* An error event was folded after results and partial results had arrived,
\* and they are all still there.
C8_Witness ==
  /\ last.op = "onerror"
  /\ voiceState.results # << >> /\ voiceState.partialResults # << >>
  /\ recognizedText # ""

\* C9 as stated: after an end event is folded, on either backend, end is set,
\* started is false and the pulse animation is stopped.
C9_EndFoldedAlike ==
  last.op \in EndOps =>
    voiceState.end = Tick /\ voiceState.started = FALSE /\ pulse = FALSE

\* C10 as stated: a final-results event replaces results by its candidate
\* list, the empty list included, and sets the display transcript to the first
\* candidate when there is one.
C10_ResultsAlwaysReplaced ==
  (last.op = "onSpeechResults" /\ last.arg.defined) =>
    /\ voiceState.results = last.arg.list
    /\ last.arg.list # << >> => recognizedText = last.arg.list[1]

\* C10, amended: a final-results event with a non-empty candidate list
\* replaces results by that list and sets the display transcript to its first
\* candidate; one with an empty or absent list changes neither. On the
\* browser the list is the one final update of the onresult call, if any.
C10_ResultsReplacedWhenNonEmpty ==
  [][ /\ (FoldStep /\ last'.op = "onSpeechResults") =>
           IF last'.arg.defined /\ last'.arg.list # << >>
           THEN /\ voiceState'.results = last'.arg.list
                /\ recognizedText' = last'.arg.list[1]
           ELSE /\ voiceState'.results = voiceState.results
                /\ recognizedText' = recognizedText
      /\ (FoldStep /\ last'.op = "onresult") =>
           IF \E i \in DOMAIN last'.fired : last'.fired[i].kind = "final"
           THEN \E i \in DOMAIN last'.fired :
                  /\ last'.fired[i].kind = "final"
                  /\ voiceState'.results = last'.fired[i].value
                  /\ recognizedText' = last'.fired[i].value[1]
           ELSE /\ voiceState'.results = voiceState.results
                /\ recognizedText' = recognizedText
    ]_vars

\* A final-results event with the empty list was folded when results were
\* there, and they still are.
C10_Witness ==
  /\ last.op = "onSpeechResults" /\ last.arg = Value(<< >>)
  /\ voiceState.results = <<"book a table please", "look at a table please">>
  /\ recognizedText = "book a table please"

\* C11: started goes from true to false only by folding an end event or an
\* error event; stop(), its rejection and every other step of the screen
\* leave a true started true.
C11_OnlyEndOrErrorLeavesListening ==
  [][ (voiceState.started /\ ~voiceState'.started) =>
        FoldStep /\ last'.op \in EndOps \cup ErrorOps
    ]_vars

\* stop() took effect on a listening session, nothing of it is folded yet,
\* and started is still true.
C11_Witness ==
  /\ last.op = "stop" /\ last.outcome = "ok" /\ isWeb
  /\ bk = "ending" /\ voiceState.started = TRUE /\ pulse = TRUE

\* C12 as stated: after every error path (start() with no backend, a start
\* primitive that throws, an error event folded) the pulse animation is not
\* running and started is false.
C12_ErrorPathsEndIdle ==
  ( \/ last.op = "start" /\ last.outcome \in {"unsupported", "alerted"}
    \/ last.op = "startRejected"
    \/ last.op \in ErrorOps )
  => pulse = FALSE /\ voiceState.started = FALSE

\* C13: with callbacks delivered fairly, a stop() called while started is
\* true is followed by a state where started is false; right after stop()
\* returns started is still true (C13_Witness).
C13_StopLeadsToIdle ==
  (last.op = "stop" /\ voiceState.started) ~> ~voiceState.started

\* Voice.stop() was called and awaited on a listening session; started is true.
C13_Witness ==
  /\ last.op = "stop" /\ last.outcome = "pending" /\ ~isWeb
  /\ calls.voiceStop = 1 /\ voiceState.started = TRUE

\* The callbacks of each backend, by the names the fold steps record.
NativeOps ==
  {"onSpeechStart", "onSpeechRecognized", "onSpeechEnd", "onSpeechError",
   "onSpeechResults", "onSpeechPartialResults", "onSpeechVolumeChanged"}

WebOps == {"onstart", "onresult", "onend", "onerror"}

\* The backend the platform offers: what initialization has to choose.
Chosen == IF ~isWeb THEN "native" ELSE IF hasWebkit THEN "web" ELSE "none"

\* The primitives of the other backend are never called and its callbacks are
\* never folded.
OnlyChosenBackend ==
  /\ Chosen # "native" =>
       calls.voiceStart = 0 /\ calls.voiceStop = 0 /\ last.op \notin NativeOps
  /\ Chosen # "web" =>
       calls.webStart = 0 /\ calls.webStop = 0 /\ last.op \notin WebOps
  /\ ~mounted => calls = [voiceStart |-> 0, voiceStop |-> 0,
                          webStart |-> 0, webStop |-> 0]

\* C14: the backend is chosen once, by the initialization effect, and stays
\* the same afterwards; start() and stop() call the primitives of that backend
\* only, and only its callbacks are folded into the record.
C14_OneBackendForLife ==
  /\ [] OnlyChosenBackend
  /\ [][ /\ platform' = platform
         /\ mounted => /\ mounted'
                       /\ webRecognition' = webRecognition
                       /\ voiceHandlers' = voiceHandlers
         /\ mounted' => /\ (webRecognition' # "null") = (Chosen = "web")
                        /\ voiceHandlers' = (Chosen = "native")
     ]_vars

\* Both primitives of the native backend were called and one of its
\* callbacks was folded; the browser's were not.
C14_Witness ==
  /\ ~isWeb /\ calls.voiceStart = 1 /\ calls.voiceStop = 1
  /\ calls.webStart = 0 /\ calls.webStop = 0
  /\ last.op = "onSpeechEnd"

\* C15 as stated: with no backend, the one notice of the initialization
\* effect is the only alert there ever is; start() and stop() add none.
C15_NoticeOnlyAtInit ==
  Unsupported =>
    alerts = IF mounted THEN SetToBag({NotSupportedAlert}) ELSE EmptyBag

\* C15, amended: with no backend, the 'Speech Recognition Not Supported'
\* notice is raised once, by the initialization effect; every start() raises
\* one 'Speech recognition not available' alert; no other step raises any.
C15_NoticeAtInitAlertPerStart ==
  /\ [](Unsupported =>
          CopiesIn(NotSupportedAlert, alerts) = IF mounted THEN 1 ELSE 0)
  /\ [][ Unsupported =>
           alerts' = IF ~mounted /\ mounted'
                       THEN alerts (+) SetToBag({NotSupportedAlert})
                     ELSE IF StartStep
                       THEN alerts (+) SetToBag({NotAvailableAlert})
                     ELSE alerts
     ]_vars

\* No backend: the notice of the effect, then a start() with its own alert,
\* then a stop() that raised nothing.
C15_Witness ==
  /\ Unsupported /\ last.op = "stop" /\ presses = 2
  /\ CopiesIn(NotSupportedAlert, alerts) = 1
  /\ CopiesIn(NotAvailableAlert, alerts) = 1

\* C16: on either backend, whenever results is non-empty the display
\* transcript is its first element, and whenever results is empty (never
\* set, or reset by start()) the display transcript is empty: the two are set
\* together and reset together.
C16_TranscriptIsFirstResult ==
  /\ voiceState.results # << >> => recognizedText = voiceState.results[1]
  /\ voiceState.results = << >> => recognizedText = ""

\* A results event with two alternatives was folded: the display transcript
\* is the first of them.
C16_Witness ==
  /\ last.op = "onSpeechResults" /\ Len(voiceState.results) = 2
  /\ recognizedText = voiceState.results[1] /\ recognizedText # ""

\* The step calls the start primitive of a backend.
StartPrimitiveCalled ==
  calls'.voiceStart = calls.voiceStart + 1 \/ calls'.webStart = calls.webStart + 1

\* C17 as stated: a press of the mic button never calls the start primitive
\* while the session an earlier start() requested is still pending (not yet
\* reported as started) or active.
C17_NoStartWhileSessionLive ==
  [][ StartPrimitiveCalled => bk \notin {"starting", "active"} ]_vars

\* C18 as stated: folding an event of an earlier session, delivered after a
\* later start() has reset the record, leaves results, partialResults, error
\* and end as they were and does not take started from true to false.
C18_StaleEventsIgnored ==
  [][ (FoldStep /\ Head(queue).stale) =>
        /\ voiceState'.results = voiceState.results
        /\ voiceState'.partialResults = voiceState.partialResults
        /\ voiceState'.error = voiceState.error
        /\ voiceState'.end = voiceState.end
        /\ (voiceState.started => voiceState'.started)
    ]_vars

====
